---- MODULE Spec2Model ----
(***************************************************************************)
(* SM2 public-key encryption, crypto/sm2/sm2_enc.c: SM2_do_encrypt and     *)
(* SM2_do_decrypt over the SM2_CIPHERTEXT_VALUE they share.                *)
(*                                                                         *)
(* The elliptic-curve group, the X9.63 KDF and the digest are library code *)
(* outside sm2_enc.c.  They are modelled by a small cyclic group of prime  *)
(* order, a byte-wise checksum KDF and a collision-free symbolic digest.   *)
(* Bytes are ByteBits wide.                                                *)
(***************************************************************************)
EXTENDS Integers, Sequences, FiniteSets, TLC

VARIABLES
    pc,       \* "idle", "enc_A1", "enc_A2", "enc_ret", "dec_ret", "aborted"
    in,       \* SM2_do_encrypt: the message (in, inlen = Len(in))
    key,      \* the recipient's EC_KEY: [group, pub, priv]
    kdf_md,   \* SM2_do_encrypt: kdf_md
    mac_md,   \* SM2_do_encrypt: mac_md
    cv,       \* SM2_do_encrypt: cv, <<>> for NULL, <<record>> otherwise
    k,        \* SM2_do_encrypt: the scalar k
    mask,     \* the KDF output t of the last iteration
    encG,     \* the byte in front of buf, buf[-1], in SM2_do_encrypt's frame
    heap,     \* the objects allocated and not yet freed
    ops,      \* the library operations the current call has performed
    err,      \* why the last call left its straight-line path ("none" if not)
    darg,     \* SM2_do_decrypt: the arguments of the last call
    out,      \* SM2_do_decrypt: the caller's buffer, <<>> for NULL
    outlen,   \* SM2_do_decrypt: *outlen
    ret,      \* SM2_do_decrypt: the value returned
    decG      \* the byte SM2_do_decrypt read at buf[-1]

vars == <<pc, in, key, kdf_md, mac_md, cv, k, mask, encG, heap, ops, err,
          darg, out, outlen, ret, decG>>

encVars == <<in, key, kdf_md, mac_md, cv, k, mask, encG>>
decVars == <<darg, out, outlen, ret, decG>>

----------------------------------------------------------------------------
(* Bounds of the model *)

\* the longest message
MaxLen == 2

\* the width of a byte, in bits
ByteBits == 2

Byte == 0 .. (2^ByteBits - 1)

\* the byte values messages are built from
MsgByte == {0, 2^ByteBits - 1}

Msgs == UNION {[1..l -> MsgByte] : l \in 0..MaxLen}

\* an output buffer of cap bytes the callee has not written yet
Untouched(cap) == [i \in 1..cap |-> 1]

----------------------------------------------------------------------------
(* The EC group (EC_GROUP of the key): a cyclic group of prime order,      *)
(* written additively, points 0 .. Order-1, 0 the point at infinity.       *)

\* EC_GROUP_get_order
Order == 5

\* EC_GROUP_get_cofactor
Cofactor == 1

\* (EC_GROUP_get_degree + 7) / 8
nbytes == 32

\* the size the asserts demand of the curve and of both digests
Sm2Bytes == 32

\* the base point G
G == 1

Infinity == 0

\* no point: a NULL EC_POINT pointer
NoPoint == 0 - 1

Points == 0 .. (Order - 1)

\* EC_POINT_mul(group, r, NULL, P, s, ctx) and EC_POINT_mul(group, r, s, NULL, NULL, ctx)
EC_POINT_mul(s, P) == (s * P) % Order

EC_POINT_is_at_infinity(P) == P = Infinity

\* affine coordinates: P and -P share x and differ in y
AffineX(P) == IF 2 * P < Order THEN P ELSE Order - P
AffineY(P) == IF 2 * P < Order THEN 1 ELSE 2

\* a coordinate as nbytes octets
Coord(v) == [i \in 1..nbytes |-> IF i = 1 \/ i = nbytes THEN v ELSE 0]

\* the octets of each point: 00 for the point at infinity, else 04 || x || y
Octets ==
    [P \in Points |->
        IF P = Infinity THEN <<0>>
        ELSE <<4>> \o Coord(AffineX(P)) \o Coord(AffineY(P))]

\* EC_POINT_point2oct(..., POINT_CONVERSION_UNCOMPRESSED, ...)
EC_POINT_point2oct(P) == Octets[P]

----------------------------------------------------------------------------
(* Digests and the KDF *)

Mds == {"sm3", "sha1", "mdc2"}

EVP_MD_size(md) == IF md = "sm3" THEN 32 ELSE IF md = "sha1" THEN 20 ELSE 16

\* KDF_get_x9_63(md) # NULL
KDF_get_x9_63(md) == md \in {"sm3", "sha1"}

\* the KDF: klen bytes that depend on every byte of Z (through their sum w);
\* a longer output extends a shorter one
KDF(Z, klen) ==
    LET sum[j \in 0..Len(Z)] == IF j = 0 THEN 0 ELSE Z[j] + sum[j - 1]
        w == sum[Len(Z)]
    IN  [i \in 1..klen |-> (i * w) % (2^ByteBits)]

\* EVP_DigestInit_ex .. EVP_DigestFinal_ex over the bytes pre: a digest is
\* named by what was hashed (no two inputs collide); flip marks a tag that
\* had a bit changed after it was computed
Digest(pre) == [pre |-> pre, flip |-> 0]

----------------------------------------------------------------------------
(* Pieces of the code both routines use *)

RECURSIVE BitXor(_, _)
BitXor(a, b) ==
    IF a = 0 THEN b
    ELSE IF b = 0 THEN a
    ELSE (((a % 2) + (b % 2)) % 2) + 2 * BitXor(a \div 2, b \div 2)

\* for (i = 0; i < n; i++) a[i] ^= b[i], n = Len(b) <= Len(a)
XorInto(a, b) == [i \in 1..Len(a) |-> IF i <= Len(b) THEN BitXor(a[i], b[i]) ELSE a[i]]

\* kdf(buf - 1, len - 1, ...): the len - 1 bytes that start one byte before
\* buf, which are the byte g in front of buf, then buf[0 .. len-3]
KdfInput(g, buf) == <<g>> \o SubSeq(buf, 1, Len(buf) - 2)

\* buf + 1, nbytes and buf + 1 + nbytes, nbytes
X2(buf) == SubSeq(buf, 2, 1 + nbytes)
Y2(buf) == SubSeq(buf, 2 + nbytes, 1 + 2 * nbytes)

----------------------------------------------------------------------------
(* Inputs *)

KeyPair(d) == [group |-> TRUE, pub |-> EC_POINT_mul(d, G), priv |-> d]

\* the private keys tried
PrivKeys == {1, Order - 2}

Keys ==
    {KeyPair(d) : d \in PrivKeys}
    \cup {[group |-> TRUE, pub |-> Infinity, priv |-> 1],
          [group |-> TRUE, pub |-> NoPoint, priv |-> 1],
          [group |-> FALSE, pub |-> G, priv |-> 1]}

NoArg == [cv |-> <<>>, kdf_md |-> "sm3", mac_md |-> "sm3", key |-> KeyPair(1),
          out |-> <<>>, outlen |-> 0, tamper |-> "none", fault |-> "none"]

----------------------------------------------------------------------------
(* SM2_do_encrypt *)

CvObjs == {"cv", "cv.ephem_point", "cv.ciphertext"}
EncWork == {"enc.point", "enc.n", "enc.h", "enc.k", "enc.bn_ctx", "enc.md_ctx"}

EcOps == {"EC_POINT_new", "EC_GROUP_get_order", "EC_GROUP_get_cofactor",
          "EC_POINT_mul", "EC_POINT_point2oct"}

\* SM2_CIPHERTEXT_VALUE_free(cv), and cv = NULL
SM2_CIPHERTEXT_VALUE_free(h) == h \ CvObjs

\* EncCleanup without the call of SM2_CIPHERTEXT_VALUE_free
EncCleanup_KeepCv(h, ok) ==
    h \ {"enc.n", "enc.h", "enc.k", "enc.bn_ctx", "enc.md_ctx"}

\* err: of SM2_do_encrypt
EncCleanup(h, ok) ==
    (IF ~ok THEN SM2_CIPHERTEXT_VALUE_free(h) ELSE h)
        \ {"enc.n", "enc.h", "enc.k", "enc.bn_ctx", "enc.md_ctx"}

\* AllZero with the retry removed
AllZero_Never(t) == FALSE

\* AllZero that takes an empty mask for a usable one
AllZero_NonEmpty(t) == Len(t) > 0 /\ \A i \in 1..Len(t) : t[i] = 0

\* the mask is entirely zero: the scan of cv->ciphertext ends at ciphertext_size
AllZero(t) == \A i \in 1..Len(t) : t[i] = 0

EncEntryFaults ==
    {"none", "malloc_cv", "malloc_member", "EC_GROUP_get_order",
     "EC_GROUP_get_cofactor"} \cup EncWork

\* the call returns NULL with the heap h
EncFail(h, o, e) ==
    /\ pc' = "enc_ret"
    /\ cv' = <<>>
    /\ heap' = h
    /\ ops' = o
    /\ err' = e

\* entry to the loop
EncCall ==
    /\ pc = "idle"
    /\ \E m \in Msgs, ky \in Keys, kmd \in Mds, mmd \in {"sm3", "sha1"},
          f \in EncEntryFaults :
        /\ in' = m
        /\ key' = ky
        /\ kdf_md' = kmd
        /\ mac_md' = mmd
        /\ UNCHANGED <<k, mask, encG>>
        /\ UNCHANGED decVars
        /\ IF ~ky.group \/ ky.pub = NoPoint \/ ~KDF_get_x9_63(kmd)
           THEN f = "none" /\ EncFail(heap, {}, "args")
           ELSE IF f = "malloc_cv"
           THEN EncFail(heap, {}, "alloc")
           ELSE IF f = "malloc_member"
           THEN EncFail(EncCleanup(heap \cup {"cv", "cv.ephem_point"}, FALSE),
                        {"EC_POINT_new"}, "alloc")
           ELSE IF f \in EncWork
           THEN EncFail(EncCleanup(heap \cup CvObjs \cup (EncWork \ {f}), FALSE),
                        {"EC_POINT_new"}, "alloc")
           ELSE IF f = "EC_GROUP_get_order"
           THEN EncFail(EncCleanup(heap \cup CvObjs \cup EncWork, FALSE),
                        {"EC_POINT_new", "EC_GROUP_get_order"}, "ec")
           ELSE IF f = "EC_GROUP_get_cofactor"
           THEN EncFail(EncCleanup(heap \cup CvObjs \cup EncWork, FALSE),
                        {"EC_POINT_new", "EC_GROUP_get_order",
                         "EC_GROUP_get_cofactor"}, "ec")
           ELSE /\ heap' = heap \cup CvObjs \cup EncWork
                /\ ops' = {"EC_POINT_new", "EC_GROUP_get_order",
                           "EC_GROUP_get_cofactor"}
                /\ cv' = <<[ephem_point |-> NoPoint,
                            ciphertext |-> [i \in 1..Len(m) |-> 0],
                            ciphertext_size |-> Len(m),
                            mactag |-> Digest(<<>>),
                            mactag_size |-> 0]>>
                /\ IF nbytes # Sm2Bytes \/ EVP_MD_size(kmd) # Sm2Bytes
                      \/ EVP_MD_size(mmd) # Sm2Bytes
                   THEN pc' = "aborted" /\ err' = "abort"
                   ELSE pc' = "enc_A1" /\ err' = "none"

\* A1: do { BN_rand_range(k, n); } while (BN_is_zero(k));
\* the byte in front of buf is whatever the stack holds by now
EncA1 ==
    /\ pc = "enc_A1"
    /\ \E r \in 0..(Order - 1), g \in Byte :
        /\ k' = r
        /\ encG' = IF r = 0 THEN encG ELSE g
        /\ r = 0 => g = 0
        /\ pc' = IF r = 0 THEN "enc_A1" ELSE "enc_A2"
    /\ ops' = ops \cup {"BN_rand_range"}
    /\ UNCHANGED <<in, key, kdf_md, mac_md, cv, mask, heap, err>>
    /\ UNCHANGED decVars

EncLoopFaults == {"none", "EC_POINT_mul", "EC_POINT_point2oct", "Digest"}

\* A2 .. A5 of one iteration, and on leaving the loop A6, A7 and the return
EncA2 ==
    /\ pc = "enc_A2"
    /\ UNCHANGED <<in, key, kdf_md, mac_md, k, encG>>
    /\ UNCHANGED decVars
    /\ \E f \in EncLoopFaults :
        LET c1  == EC_POINT_mul(k, G)
            hP  == EC_POINT_mul(Cofactor, key.pub)
            S   == EC_POINT_mul(k, key.pub)
            buf == EC_POINT_point2oct(S)
            t   == KDF(KdfInput(encG, buf), cv[1].ciphertext_size)
            mul == ops \cup {"EC_POINT_mul"}
        IN  IF f = "EC_POINT_mul"
            THEN /\ EncFail(EncCleanup(heap, FALSE), mul, "ec")
                 /\ UNCHANGED mask
            ELSE IF EC_POINT_is_at_infinity(hP)
            THEN /\ f = "none"
                 /\ EncFail(EncCleanup(heap, FALSE), mul, "infinity")
                 /\ UNCHANGED mask
            ELSE IF f = "EC_POINT_point2oct"
            THEN /\ EncFail(EncCleanup(heap, FALSE),
                            mul \cup {"EC_POINT_point2oct"}, "ec")
                 /\ UNCHANGED mask
            ELSE /\ mask' = t
                 /\ IF AllZero(t)
                    THEN /\ f = "none"
                         /\ pc' = "enc_A1"
                         /\ cv' = <<[cv[1] EXCEPT !.ephem_point = c1,
                                                  !.ciphertext = t]>>
                         /\ ops' = mul \cup {"EC_POINT_point2oct", "KDF"}
                         /\ UNCHANGED <<heap, err>>
                    ELSE IF f = "Digest"
                    THEN EncFail(EncCleanup(heap, FALSE),
                                 mul \cup {"EC_POINT_point2oct", "KDF", "Digest"},
                                 "digest")
                    ELSE /\ pc' = "enc_ret"
                         /\ cv' = <<[ephem_point |-> c1,
                                     ciphertext |-> XorInto(t, in),
                                     ciphertext_size |-> cv[1].ciphertext_size,
                                     mactag |-> Digest(X2(buf) \o in \o Y2(buf)),
                                     mactag_size |-> EVP_MD_size(mac_md)]>>
                         /\ heap' = EncCleanup(heap, TRUE)
                         /\ ops' = mul \cup {"EC_POINT_point2oct", "KDF", "Digest"}
                         /\ err' = "none"

----------------------------------------------------------------------------
(* SM2_do_decrypt *)

DecWork == {"dec.point", "dec.n", "dec.h", "dec.bn_ctx", "dec.md_ctx"}

\* err: of SM2_do_decrypt
DecCleanup(h) == h \ DecWork

DecFaults ==
    {"none", "EC_GROUP_get_order", "EC_GROUP_get_cofactor", "EC_POINT_mul",
     "EC_POINT_point2oct", "Digest"} \cup DecWork

\* the ciphertext value c, and c with one field changed
Tampered(c) ==
    {[tamper |-> "none", cv |-> c]}
    \cup {[tamper |-> "ciphertext",
           cv |-> [c EXCEPT !.ciphertext[i] = BitXor(@, 2^b)]] :
            i \in 1..c.ciphertext_size, b \in 0..(ByteBits - 1)}
    \cup {[tamper |-> "ephem_point", cv |-> [c EXCEPT !.ephem_point = p]] :
            p \in Points \ {c.ephem_point}}
    \cup {[tamper |-> "mactag", cv |-> [c EXCEPT !.mactag.flip = 1]],
          [tamper |-> "mactag_size", cv |-> [c EXCEPT !.mactag_size = @ - 1]]}

\* the digests and key of the Encrypt call, and those with one of them changed
DecConfigs ==
    {[kdf_md |-> kdf_md, mac_md |-> mac_md, key |-> key]}
    \cup {[kdf_md |-> md, mac_md |-> mac_md, key |-> key] : md \in Mds}
    \cup {[kdf_md |-> kdf_md, mac_md |-> "sha1", key |-> key]}
    \cup {[kdf_md |-> kdf_md, mac_md |-> mac_md, key |-> [key EXCEPT !.group = FALSE]],
          [kdf_md |-> kdf_md, mac_md |-> mac_md, key |-> [key EXCEPT !.pub = NoPoint]]}

\* the caller's buffer: none, or cap bytes with *outlen = cap
Buffers(c) ==
    {[out |-> <<>>, outlen |-> 0]}
    \cup {[out |-> <<Untouched(cap)>>, outlen |-> cap] :
            cap \in {0, c.ciphertext_size, c.ciphertext_size + 1}
                    \cup (IF c.ciphertext_size > 0 THEN {c.ciphertext_size - 1} ELSE {})}

\* a buffer of exactly the payload's length
Exact(c) ==
    [out |-> <<Untouched(c.ciphertext_size)>>, outlen |-> c.ciphertext_size]

\* the arguments of one call
DecArg(t, cf, b, f) ==
    [cv |-> t.cv, tamper |-> t.tamper, kdf_md |-> cf.kdf_md, mac_md |-> cf.mac_md,
     key |-> cf.key, out |-> b.out, outlen |-> b.outlen, fault |-> f]

\* QueryLen that leaves *outlen as the caller passed it
QueryLen_Unset(c) == 0

\* if (!out) { *outlen = cv->ciphertext_size; return 1; }
QueryLen(c) == c.ciphertext_size

\* what the MAC is computed over: EVP_DigestUpdate(md_ctx, out, *outlen)
MacInput(o, ol) == SubSeq(o, 1, ol)

\* the tag comparison of B6
TagDiffers(c, mac, maclen) == c.mactag_size # maclen \/ c.mactag # mac

DecResult(r, o, ol, h, op, e, rg) ==
    [ret |-> r, out |-> o, outlen |-> ol, heap |-> h, ops |-> op, err |-> e,
     readG |-> rg]

\* SM2_do_decrypt(cv, kdf_md, mac_md, out, outlen, ec_key), the byte in front
\* of buf being g and the heap h0
SM2_do_decrypt(a, g, h0) ==
    LET c    == a.cv
        f    == a.fault
        all  == h0 \cup DecWork
        o1   == {"EC_POINT_new"}
        o2   == o1 \cup {"EC_GROUP_get_order"}
        o3   == o2 \cup {"EC_GROUP_get_cofactor"}
        o4   == o3 \cup {"EC_POINT_mul"}
        o5   == o4 \cup {"EC_POINT_point2oct"}
        o6   == o5 \cup {"KDF", "Digest"}
        hC1  == EC_POINT_mul(Cofactor, c.ephem_point)
        S    == EC_POINT_mul(a.key.priv, c.ephem_point)
        buf  == EC_POINT_point2oct(S)
        t    == KDF(KdfInput(g, buf), a.outlen)
        m    == XorInto(t, c.ciphertext)
        mac  == Digest(X2(buf) \o MacInput(m, a.outlen) \o Y2(buf))
        fail(op, e) == DecResult(0, a.out, a.outlen, DecCleanup(all), op, e, FALSE)
    IN  IF ~a.key.group \/ a.key.pub = NoPoint \/ ~KDF_get_x9_63(a.kdf_md)
        THEN DecResult(0, a.out, a.outlen, h0, {}, "args", FALSE)
        ELSE IF a.out = <<>>
        THEN DecResult(1, a.out, QueryLen(c), h0, {}, "none", FALSE)
        ELSE IF a.outlen < c.ciphertext_size
        THEN DecResult(0, a.out, a.outlen, h0, {}, "size", FALSE)
        ELSE IF f \in DecWork
        THEN DecResult(0, a.out, a.outlen, DecCleanup(all \ {f}), o1, "alloc", FALSE)
        ELSE IF f = "EC_GROUP_get_order" THEN fail(o2, "ec")
        ELSE IF f = "EC_GROUP_get_cofactor" THEN fail(o3, "ec")
        ELSE IF nbytes # Sm2Bytes \/ EVP_MD_size(a.kdf_md) # Sm2Bytes
                \/ EVP_MD_size(a.mac_md) # Sm2Bytes
        THEN DecResult(0, a.out, a.outlen, all, o3, "abort", FALSE)
        ELSE IF f = "EC_POINT_mul" THEN fail(o4, "ec")
        ELSE IF EC_POINT_is_at_infinity(hC1) THEN fail(o4, "infinity")
        ELSE IF f = "EC_POINT_point2oct" THEN fail(o5, "ec")
        ELSE IF f = "Digest"
        THEN DecResult(0, <<m>>, a.outlen, DecCleanup(all), o6, "digest", TRUE)
        ELSE IF TagDiffers(c, mac, EVP_MD_size(a.mac_md))
        THEN DecResult(0, <<m>>, a.outlen, DecCleanup(all), o6, "mac", TRUE)
        ELSE DecResult(1, <<m>>, a.outlen, DecCleanup(all), o6, "none", TRUE)

\* a fault is named only on a path that reaches it
FaultReached(a, r) ==
    \/ a.fault = "none"
    \/ a.fault \in DecWork /\ r.err = "alloc"
    \/ a.fault \in {"EC_GROUP_get_order", "EC_GROUP_get_cofactor", "EC_POINT_mul",
                    "EC_POINT_point2oct"} /\ r.err = "ec"
    \/ a.fault = "Digest" /\ r.err = "digest"

\* one call of SM2_do_decrypt with the arguments a
DecCall(a) ==
    LET r0 == SM2_do_decrypt(a, 0, heap)
    IN  /\ FaultReached(a, r0)
        /\ \E g \in (IF r0.readG THEN Byte ELSE {0}) :
            LET r == IF g = 0 THEN r0 ELSE SM2_do_decrypt(a, g, heap)
            IN  /\ darg' = a
                /\ decG' = g
                /\ out' = r.out
                /\ outlen' = r.outlen
                /\ ret' = r.ret
                /\ heap' = r.heap
                /\ ops' = r.ops
                /\ err' = r.err
                /\ pc' = IF r.err = "abort" THEN "aborted" ELSE "dec_ret"

\* SM2_do_decrypt called on the value Encrypt returned: with every changed
\* field and every buffer, with every changed digest or key and every buffer,
\* and with every library failure and a buffer that fits
Decrypt ==
    /\ pc = "enc_ret"
    /\ cv # <<>>
    /\ LET same  == [kdf_md |-> kdf_md, mac_md |-> mac_md, key |-> key]
           whole == [tamper |-> "none", cv |-> cv[1]]
       IN  \/ \E t \in Tampered(cv[1]), b \in Buffers(cv[1]) :
                DecCall(DecArg(t, same, b, "none"))
           \/ \E cf \in DecConfigs \ {same}, b \in Buffers(cv[1]) :
                DecCall(DecArg(whole, cf, b, "none"))
           \/ \E f \in DecFaults \ {"none"} :
                DecCall(DecArg(whole, same, Exact(cv[1]), f))
    /\ UNCHANGED <<in, key, kdf_md, mac_md, cv, encG>>
    /\ k' = 0
    /\ mask' = <<>>

----------------------------------------------------------------------------

Init ==
    /\ pc = "idle"
    /\ in = <<>>
    /\ key = KeyPair(1)
    /\ kdf_md = "sm3"
    /\ mac_md = "sm3"
    /\ cv = <<>>
    /\ k = 0
    /\ mask = <<>>
    /\ encG = 0
    /\ heap = {}
    /\ ops = {}
    /\ err = "none"
    /\ darg = NoArg
    /\ out = <<>>
    /\ outlen = 0
    /\ ret = 0
    /\ decG = 0

EncNext == EncCall \/ EncA1 \/ EncA2

Next == EncNext \/ Decrypt

Spec == Init /\ [][Next]_vars

\* SM2_do_encrypt alone
EncSpec == Init /\ [][EncNext]_vars

\* a draw of k that gives, with the byte in front of buf, a mask that is not
\* entirely zero
EncGoodDraw ==
    /\ EncA1
    /\ k' # 0
    /\ \E Z \in {KdfInput(encG', EC_POINT_point2oct(EC_POINT_mul(k', key.pub)))} :
        ~AllZero(KDF(Z, Len(in)))

\* SM2_do_encrypt alone; the routine keeps running, and a scalar k whose mask
\* has a non-zero byte keeps being drawn
EncLiveSpec ==
    /\ EncSpec
    /\ WF_vars(EncA1)
    /\ WF_vars(EncA2)
    /\ SF_vars(EncGoodDraw)

----------------------------------------------------------------------------
(* The properties *)

EncReturned == pc = "enc_ret"
DecReturned == pc = "dec_ret"

\* the last call made was SM2_do_decrypt
DecCalled == darg.cv # <<>>

\* Decrypt was given the digests and the key pair Encrypt was given
SameConfig == darg.kdf_md = kdf_md /\ darg.mac_md = mac_md /\ darg.key = key

\* Decrypt was given the value Encrypt returned, a buffer, the digests and
\* the key of Encrypt, and no library call failed
PlainCall ==
    /\ DecReturned
    /\ darg.tamper = "none"
    /\ SameConfig
    /\ darg.fault = "none"
    /\ darg.out # <<>>

Degenerate(ky) == EC_POINT_is_at_infinity(EC_POINT_mul(Cofactor, ky.pub))

BadDigest(kmd, mmd) == EVP_MD_size(kmd) # Sm2Bytes \/ EVP_MD_size(mmd) # Sm2Bytes

\* C1: Decrypt of the value Encrypt returned, with a buffer of exactly the
\* payload's length, returns 1 and leaves the message in the buffer.
C1_RoundTrip ==
    (PlainCall /\ darg.outlen = cv[1].ciphertext_size)
        => (ret = 1 /\ out = <<in>>)

\* The round trip does hold when both calls read the same byte in front of buf.
RoundTripSameByte ==
    (PlainCall /\ darg.outlen = cv[1].ciphertext_size /\ decG = encG)
        => (ret = 1 /\ out = <<in>>)

\* C2: after Decrypt fails on the tag comparison the caller's buffer is as it
\* was before the call, or wiped; it holds no candidate plaintext.
C2_FailClosed ==
    (DecReturned /\ err = "mac")
        => (out = darg.out \/ \A i \in 1..Len(out[1]) : out[1][i] = 0)

\* C3: Decrypt of a value that had one bit of its payload, its ephemeral
\* point or its tag changed returns 0, and Decrypt never returns 1 with a
\* plaintext other than the message.
C3_TamperSensitivity ==
    /\ (DecReturned /\ SameConfig /\ darg.out # <<>>
            /\ darg.tamper \in {"ciphertext", "ephem_point", "mactag"})
        => ret = 0
    /\ (DecReturned /\ SameConfig /\ darg.out # <<>> /\ ret = 1)
        => SubSeq(out[1], 1, Len(in)) = in

\* A changed value is refused when both calls read the same byte in front of
\* buf.
TamperRefusedSameByte ==
    (DecReturned /\ SameConfig /\ darg.out # <<>> /\ decG = encG
        /\ darg.tamper \in {"ciphertext", "ephem_point", "mactag"})
        => ret = 0

\* The second half of C3 alone: no success with a wrong plaintext.
NoWrongPlaintext ==
    (DecReturned /\ SameConfig /\ darg.out # <<>> /\ ret = 1)
        => out = <<in>>

\* C4: Decrypt without an output buffer, on any ciphertext value (the key
\* carrying a group and a public point, the KDF digest being one the KDF
\* supports), returns 1, reports the payload's length, writes no byte and
\* performs no EC, KDF or digest operation.
C4_SizingContract ==
    (DecReturned /\ darg.out = <<>>
        /\ darg.key.group /\ darg.key.pub # NoPoint /\ KDF_get_x9_63(darg.kdf_md))
        => /\ ret = 1
           /\ outlen = Len(darg.cv.ciphertext)
           /\ out = <<>>
           /\ ops \cap (EcOps \cup {"KDF", "Digest"}) = {}
           /\ heap \cap DecWork = {}

C4_Witness ==
    /\ DecReturned
    /\ darg.out = <<>>
    /\ darg.tamper = "ciphertext"
    /\ ret = 1
    /\ outlen = MaxLen
    /\ err = "none"

\* C5: a call of Encrypt or Decrypt with a KDF digest or MAC digest that is
\* not 32 bytes returns a failure to its caller (NULL, 0), and has performed
\* no EC operation.
C5_DigestSize ==
    /\ (~DecCalled /\ pc # "idle" /\ BadDigest(kdf_md, mac_md))
        => (EncReturned /\ cv = <<>> /\ ops \cap EcOps = {})
    /\ (DecCalled /\ BadDigest(darg.kdf_md, darg.mac_md))
        => (DecReturned /\ ret = 0 /\ ops \cap EcOps = {})

\* C6: with a public point P such that [h]P is the point at infinity, the
\* iteration that makes the check ends the call (no new k is drawn), and
\* the call returns NULL with the ciphertext value freed; an iteration whose
\* mask is entirely zero ends in no error: the call goes on to draw k with
\* its ciphertext value kept.
C6_DegenerateKey ==
    /\ []((EncReturned /\ Degenerate(key))
            => (cv = <<>> /\ heap \cap CvObjs = {} /\ "KDF" \notin ops))
    /\ []((EncReturned /\ err = "infinity") => Degenerate(key))
    /\ [][(pc = "enc_A2" /\ Degenerate(key)) => pc' = "enc_ret"]_vars
    /\ [][(pc = "enc_A2" /\ pc' = "enc_A1")
            => (AllZero(mask') /\ cv' # <<>> /\ err' = "none" /\ heap' = heap)]_vars

C6_Witness ==
    /\ EncReturned
    /\ Degenerate(key)
    /\ err = "infinity"
    /\ cv = <<>>
    /\ "EC_POINT_mul" \in ops

\* C7: Decrypt of the value Encrypt returned, with a buffer of the payload's
\* length or more, returns 1 and reports the payload's length (stated for
\* the calls in which Decrypt reads the same byte in front of buf as Encrypt
\* did).
C7_AnySufficientBuffer ==
    (PlainCall /\ darg.outlen >= cv[1].ciphertext_size /\ decG = encG)
        => (ret = 1 /\ outlen = cv[1].ciphertext_size)

\* C8: the scalar an iteration uses is in [1, n-1], and the payload of every
\* value Encrypt returns is the message XOR the mask of the last iteration,
\* a mask with a non-zero byte, so the payload differs from the message.
C8_ZeroMaskRetry ==
    /\ pc = "enc_A2" => k \in 1..(Order - 1)
    /\ (pc = "enc_A1" /\ "KDF" \in ops) => (\A i \in 1..Len(mask) : mask[i] = 0)
    /\ (EncReturned /\ cv # <<>>)
        => /\ k \in 1..(Order - 1)
           /\ Len(mask) = Len(in)
           /\ \E i \in 1..Len(mask) : mask[i] # 0
           /\ cv[1].ciphertext = [i \in 1..Len(in) |-> BitXor(in[i], mask[i])]
           /\ cv[1].ciphertext # in

\* an iteration with a non-empty, entirely zero mask was discarded
C8_Witness ==
    /\ pc = "enc_A1"
    /\ "KDF" \in ops
    /\ Len(mask) = MaxLen
    /\ \A i \in 1..Len(mask) : mask[i] = 0
    /\ cv # <<>>

\* C9: Encrypt of an empty message returns only when an argument is invalid
\* or a library call fails, never from the loop's exit; Encrypt of a message
\* of one byte or more leaves the loop in the iteration whose mask has a
\* non-zero byte, and so returns.
C9_EmptyInput ==
    /\ []((EncReturned /\ Len(in) = 0) => (cv = <<>> /\ err # "none"))
    /\ [][(pc = "enc_A2" /\ Len(in) = 0 /\ pc' # "enc_ret") => pc' = "enc_A1"]_vars
    /\ [][(pc = "enc_A2" /\ pc' = "enc_A1") => (\A i \in 1..Len(mask') : mask'[i] = 0)]_vars
    /\ ((pc = "enc_A1" /\ Len(in) >= 1) ~> EncReturned)

\* the loop runs on an empty message
C9_Witness ==
    /\ pc = "enc_A1"
    /\ Len(in) = 0
    /\ "KDF" \in ops
    /\ k # 0

\* C10: when Encrypt returns, none of its working objects is allocated, and
\* after an error neither is the ciphertext value; when Decrypt returns, none
\* of its working objects is allocated.
C10_Release ==
    /\ (EncReturned /\ ~DecCalled)
        => (heap \cap EncWork = {} /\ (cv = <<>> => heap \cap CvObjs = {}))
    /\ DecReturned => heap \cap DecWork = {}

\* Decrypt by itself releases all it allocated.
DecryptReleases == DecReturned => heap \cap DecWork = {}

====
